---- MODULE Spec2Model ----
(***************************************************************************)
(* Model of iptool's IPv4 subnet calculator (package ip): ParseIPv4, the   *)
(* derived accessors of the IPv4 struct and IPv4.Split.                    *)
(*                                                                         *)
(* Representation.  TLC's integers are 32-bit signed, so a Go uint32 or a  *)
(* 64-bit int is kept as a pair <<hi, lo>> of 16-bit limbs (value          *)
(* hi * 65536 + lo); a uint32 has hi < 65536, a Go int may have a larger   *)
(* hi.  A net.IP / net.IPMask is its sequence of 4 bytes.  Text is a       *)
(* sequence of one-character strings, so that formatting and parsing are   *)
(* real conversions.  The build modelled is a 64-bit one (Go int = int64). *)
(***************************************************************************)
EXTENDS Integers, Sequences, FiniteSets, TLC

\* ------------------------------------------------------------------------
\* Width arithmetic
\* ------------------------------------------------------------------------

Limb == 256 * 256

RECURSIVE Pow2(_)
Pow2(k) == IF k <= 0 THEN 1 ELSE 2 * Pow2(k - 1)

RECURSIVE BitAnd(_, _)
BitAnd(a, b) ==
    IF a = 0 \/ b = 0 THEN 0
    ELSE (a % 2) * (b % 2) + 2 * BitAnd(a \div 2, b \div 2)

RECURSIVE BitOr(_, _)
BitOr(a, b) ==
    IF a = 0 THEN b
    ELSE IF b = 0 THEN a
    ELSE (IF a % 2 = 1 \/ b % 2 = 1 THEN 1 ELSE 0) + 2 * BitOr(a \div 2, b \div 2)

\* uint32 operators: & | ^ (unary) + -
And32(a, b) == << BitAnd(a[1], b[1]), BitAnd(a[2], b[2]) >>
Or32(a, b)  == << BitOr(a[1], b[1]), BitOr(a[2], b[2]) >>
Not32(a)    == << (Limb - 1) - a[1], (Limb - 1) - a[2] >>

\* Go int (64-bit) addition, subtraction (a >= b), comparison
WAdd(a, b) ==
    LET lo == a[2] + b[2]
    IN  << a[1] + b[1] + (lo \div Limb), lo % Limb >>

WSub(a, b) ==
    LET borrow == IF a[2] < b[2] THEN 1 ELSE 0
    IN  << a[1] - b[1] - borrow, a[2] + borrow * Limb - b[2] >>

WLess(a, b) == a[1] < b[1] \/ (a[1] = b[1] /\ a[2] < b[2])

WLeq(a, b) == ~ WLess(b, a)

\* i * w for a small non-negative i
WMul(i, w) ==
    LET lo == i * w[2]
    IN  << i * w[1] + (lo \div Limb), lo % Limb >>

\* Go's integer division a / b for 0 <= a, 0 < b, by binary long division;
\* the quotient is returned as an integer.
RECURSIVE WDiv(_, _)
WDiv(a, b) ==
    IF WLess(a, b) THEN 0
    ELSE LET q2 == 2 * WDiv(a, WAdd(b, b))
         IN  IF WLess(WSub(a, WMul(q2, b)), b) THEN q2 ELSE q2 + 1

\* conversion uint32(x) of a Go int: truncation to 32 bits
ToU32(w) == << w[1] % Limb, w[2] >>

\* uint32 + and - with wrap-around
Add32(a, b) == ToU32(WAdd(a, b))
Sub32(a, b) == ToU32(WSub(<< a[1] + Limb, a[2] >>, b))

\* uint32(b[0])<<24 | uint32(b[1])<<16 | uint32(b[2])<<8 | uint32(b[3])
BytesToU32(b) == << b[1] * 256 + b[2], b[3] * 256 + b[4] >>

\* (x>>24)&0xFF, (x>>16)&0xFF, (x>>8)&0xFF, x&0xFF
U32ToBytes(x) == << x[1] \div 256, x[1] % 256, x[2] \div 256, x[2] % 256 >>

\* ------------------------------------------------------------------------
\* Text
\* ------------------------------------------------------------------------

DecDigits == << "0", "1", "2", "3", "4", "5", "6", "7", "8", "9" >>
HexLower  == << "0", "1", "2", "3", "4", "5", "6", "7", "8", "9",
                "a", "b", "c", "d", "e", "f" >>
HexUpper  == << "0", "1", "2", "3", "4", "5", "6", "7", "8", "9",
                "A", "B", "C", "D", "E", "F" >>

IsDecDigit(c) == \E i \in 1..10 : DecDigits[i] = c
IsHexDigit(c) == \E i \in 1..16 : HexLower[i] = c \/ HexUpper[i] = c

DecVal(c) == (CHOOSE i \in 1..10 : DecDigits[i] = c) - 1
HexVal(c) == (CHOOSE i \in 1..16 : HexLower[i] = c \/ HexUpper[i] = c) - 1

\* strconv.Itoa / fmt %d for n >= 0
RECURSIVE Itoa(_)
Itoa(n) == IF n < 10 THEN << DecDigits[n + 1] >>
           ELSE Itoa(n \div 10) \o << DecDigits[(n % 10) + 1] >>

\* fmt.Sprintf("%d.%d.%d.%d", ...) and net.IP.String() of a 4-byte address
FormatDotted(b) ==
    Itoa(b[1]) \o <<".">> \o Itoa(b[2]) \o <<".">> \o Itoa(b[3]) \o <<".">> \o Itoa(b[4])

\* fmt %02x of one byte
Hex2(n) == << HexLower[(n \div 16) + 1], HexLower[(n % 16) + 1] >>

\* net.IPMask.String(): the bytes in hexadecimal, no punctuation
RECURSIVE MaskHexString(_)
MaskHexString(m) == IF m = << >> THEN << >> ELSE Hex2(m[1]) \o MaskHexString(Tail(m))

Contains(s, c) == \E i \in 1..Len(s) : s[i] = c

\* index of the first c in s, 0 when absent
IndexOf(s, c) ==
    IF Contains(s, c) THEN CHOOSE i \in 1..Len(s) : s[i] = c /\ \A j \in 1..(i - 1) : s[j] # c
    ELSE 0

\* strings.FieldsFunc(s, sep): maximal runs of non-separator characters
RECURSIVE FieldsFunc(_, _)
FieldsFunc(s, seps) ==
    IF s = << >> THEN << >>
    ELSE IF s[1] \in seps THEN FieldsFunc(Tail(s), seps)
    ELSE LET stops == { i \in 1..Len(s) : s[i] \in seps }
             n == IF stops = {} THEN Len(s)
                  ELSE (CHOOSE i \in stops : \A j \in stops : i <= j) - 1
         IN  << SubSeq(s, 1, n) >> \o FieldsFunc(SubSeq(s, n + 1, Len(s)), seps)

\* strings.Split(s, sep) for a one-character separator: empty fields kept
RECURSIVE SplitOn(_, _)
SplitOn(s, c) ==
    LET i == IndexOf(s, c)
    IN  IF i = 0 THEN << s >>
        ELSE << SubSeq(s, 1, i - 1) >> \o SplitOn(SubSeq(s, i + 1, Len(s)), c)

\* strings.Join(parts, sep)
RECURSIVE Join(_, _)
Join(parts, sep) ==
    IF parts = << >> THEN << >>
    ELSE IF Len(parts) = 1 THEN parts[1]
    ELSE parts[1] \o sep \o Join(Tail(parts), sep)

\* ------------------------------------------------------------------------
\* Go standard library as used by package ip (package net, strconv)
\* ------------------------------------------------------------------------

\* a nil net.IP / a failed parse
Nil == << >>

\* one dotted-decimal field: 1..3 decimal digits, no leading zero, value <= 255
IsOctetText(f) ==
    /\ Len(f) \in 1..3
    /\ \A i \in 1..Len(f) : IsDecDigit(f[i])
    /\ (Len(f) > 1 => f[1] # "0")
    /\ (Len(f) = 3 => DecVal(f[1]) * 100 + DecVal(f[2]) * 10 + DecVal(f[3]) <= 255)

RECURSIVE Atoi(_)
Atoi(f) == IF f = << >> THEN 0
           ELSE Atoi(SubSeq(f, 1, Len(f) - 1)) * 10 + DecVal(f[Len(f)])

\* netip.parseIPv4: dotted-decimal text to its 4 bytes, or Nil
ParseIPv4Fields(s) ==
    LET f == SplitOn(s, ".")
    IN  IF Len(f) = 4 /\ \A i \in 1..4 : IsOctetText(f[i])
        THEN [ i \in 1..4 |-> Atoi(f[i]) ]
        ELSE Nil

\* the number of hexadecimal digits s starts with
RECURSIVE HexRun(_)
HexRun(s) == IF s = << >> \/ ~ IsHexDigit(s[1]) THEN 0 ELSE 1 + HexRun(Tail(s))

\* the value of at most 4 hexadecimal digits
RECURSIVE Hex16(_)
Hex16(s) == IF s = << >> THEN 0
            ELSE 16 * Hex16(SubSeq(s, 1, Len(s) - 1)) + HexVal(s[Len(s)])

V6Fail == [ok |-> FALSE, b |-> << >>, e |-> -1]

\* netip.parseIPv6, the loop over the groups: b are the bytes read so far, e
\* the byte position of "::" (-1 when none was seen)
RECURSIVE V6Loop(_, _, _)

\* after a group: r is the text left, b2 the bytes with the group appended
V6Next(r, b2, e) ==
    IF r = << >> THEN [ok |-> TRUE, b |-> b2, e |-> e]
    ELSE IF r[1] # ":" \/ Len(r) = 1 THEN V6Fail
    ELSE IF r[2] = ":"
    THEN IF e >= 0 THEN V6Fail
         ELSE IF Len(r) = 2 THEN [ok |-> TRUE, b |-> b2, e |-> Len(b2)]
         ELSE V6Loop(SubSeq(r, 3, Len(r)), b2, Len(b2))
    ELSE V6Loop(Tail(r), b2, e)

\* an embedded dotted-decimal tail
V6Embedded(v4, b, e) ==
    IF (e < 0 /\ Len(b) # 12) \/ Len(b) + 4 > 16 \/ v4 = Nil THEN V6Fail
    ELSE [ok |-> TRUE, b |-> b \o v4, e |-> e]

\* one group of off hexadecimal digits at the start of s
V6Group(s, b, e, off) ==
    IF off = 0 \/ off > 4 THEN V6Fail
    ELSE IF off < Len(s) /\ s[off + 1] = "." THEN V6Embedded(ParseIPv4Fields(s), b, e)
    ELSE V6Next(SubSeq(s, off + 1, Len(s)),
                b \o << Hex16(SubSeq(s, 1, off)) \div 256, Hex16(SubSeq(s, 1, off)) % 256 >>,
                e)

V6Loop(s, b, e) ==
    IF Len(b) >= 16 THEN [ok |-> s = << >>, b |-> b, e |-> e]
    ELSE V6Group(s, b, e, HexRun(s))

\* the bytes r.b with 16 - Len(r.b) zero bytes put in at the position of "::"
V6Expand(r) ==
    IF ~ r.ok THEN Nil
    ELSE IF Len(r.b) < 16
    THEN IF r.e < 0 THEN Nil
         ELSE SubSeq(r.b, 1, r.e) \o [ i \in 1..(16 - Len(r.b)) |-> 0 ]
                  \o SubSeq(r.b, r.e + 1, Len(r.b))
    ELSE IF r.e >= 0 THEN Nil
    ELSE r.b

\* netip.parseIPv6 (no zone): the 16 bytes, or Nil
ParseIPv6Text(s) ==
    IF Len(s) >= 2 /\ s[1] = ":" /\ s[2] = ":"
    THEN IF Len(s) = 2 THEN V6Expand([ok |-> TRUE, b |-> << >>, e |-> 0])
         ELSE V6Expand(V6Loop(SubSeq(s, 3, Len(s)), << >>, 0))
    ELSE V6Expand(V6Loop(s, << >>, -1))

\* net.ParseIP: the first '.' or ':' decides between dotted decimal (4 bytes
\* here; Go keeps them in 16-byte form, To4() gives them back) and IPv6 (16
\* bytes); Nil for anything else.  Zones ('%') are not among the inputs.
ParseIP(s) ==
    LET dot == IndexOf(s, ".")
        col == IndexOf(s, ":")
    IN  IF col # 0 /\ (dot = 0 \/ col < dot) THEN ParseIPv6Text(s)
        ELSE ParseIPv4Fields(s)

V4InV6Prefix == << 0, 0, 0, 0, 0, 0, 0, 0, 0, 0, 255, 255 >>

\* net.IP.To4()
To4(ip) ==
    IF Len(ip) = 4 THEN ip
    ELSE IF Len(ip) = 16 /\ SubSeq(ip, 1, 12) = V4InV6Prefix THEN SubSeq(ip, 13, 16)
    ELSE Nil

\* strconv hexadecimal digits of n >= 0 without leading zeros
RECURSIVE HexNoPad(_)
HexNoPad(n) == IF n < 16 THEN << HexLower[n + 1] >>
               ELSE HexNoPad(n \div 16) \o << HexLower[(n % 16) + 1] >>

\* group i (1..8) of a 16-byte address
V6Group16(ip, i) == ip[2 * i - 1] * 256 + ip[2 * i]

\* the number of zero groups from group i on
RECURSIVE V6ZeroRun(_, _)
V6ZeroRun(ip, i) ==
    IF i > 8 \/ V6Group16(ip, i) # 0 THEN 0 ELSE 1 + V6ZeroRun(ip, i + 1)

\* the first longest run of two or more zero groups: its start zs (0 if there
\* is none) and its length zl
RECURSIVE V6ZeroStart(_, _, _, _)
V6ZeroStart(ip, i, zs, zl) ==
    IF i > 8 THEN [zs |-> zs, zl |-> zl]
    ELSE IF V6ZeroRun(ip, i) >= 2 /\ V6ZeroRun(ip, i) > zl
    THEN V6ZeroStart(ip, i + 1, i, V6ZeroRun(ip, i))
    ELSE V6ZeroStart(ip, i + 1, zs, zl)

\* the groups from i on in hexadecimal, the groups zs..ze-1 written "::"
RECURSIVE V6Pieces(_, _, _, _)
V6Pieces(ip, i, zs, ze) ==
    IF i > 8 THEN << >>
    ELSE IF i = zs THEN << ":", ":" >> \o V6Pieces(ip, ze, zs, ze)
    ELSE (IF i > 1 /\ i # ze THEN << ":" >> ELSE << >>)
             \o HexNoPad(V6Group16(ip, i)) \o V6Pieces(ip, i + 1, zs, ze)

V6Write(ip, z) == V6Pieces(ip, 1, z.zs, z.zs + z.zl)

\* netip.Addr.String() of an IPv6 address: groups in hexadecimal, the first
\* longest run of two or more zero groups written "::"
V6String(ip) == V6Write(ip, V6ZeroStart(ip, 1, 0, 0))


\* net.CIDRMask(ones, 32)
CIDRMask(ones) ==
    [ i \in 1..4 |->
        LET n == ones - 8 * (i - 1)
        IN  IF n >= 8 THEN 255 ELSE IF n <= 0 THEN 0 ELSE 256 - Pow2(8 - n) ]

\* number of leading one-bits of a byte
RECURSIVE LeadingOnes(_)
LeadingOnes(v) == IF v >= 128 THEN 1 + LeadingOnes((v * 2) % 256) ELSE 0

\* net.simpleMaskLength: the number of leading ones, -1 unless the mask is
\* ones followed by zeros
RECURSIVE SimpleMaskLength(_)
SimpleMaskLength(m) ==
    IF m = << >> THEN 0
    ELSE IF m[1] = 255
    THEN LET r == SimpleMaskLength(Tail(m)) IN IF r = -1 THEN -1 ELSE 8 + r
    ELSE LET n == LeadingOnes(m[1])
         IN  IF (m[1] * Pow2(n)) % 256 # 0 THEN -1
             ELSE IF \E i \in 2..Len(m) : m[i] # 0 THEN -1
             ELSE n

\* net.IPMask.Size()
MaskSize(m) ==
    LET ones == SimpleMaskLength(m)
    IN  IF ones = -1 THEN [ones |-> 0, bits |-> 0]
        ELSE [ones |-> ones, bits |-> 8 * Len(m)]

\* net.IP.Mask(mask)
IPMaskOf(ip, mask) == [ i \in 1..Len(mask) |-> BitAnd(ip[i], mask[i]) ]

\* net.dtoi: the decimal number the text starts with, the number of characters
\* consumed, and whether there was a number below 0xFFFFFF
RECURSIVE DtoiFrom(_, _, _)
DtoiFrom(s, i, n) ==
    IF i > Len(s) \/ ~ IsDecDigit(s[i]) THEN [n |-> n, i |-> i - 1, ok |-> i > 1]
    ELSE LET m == n * 10 + DecVal(s[i])
         IN  IF m >= 16777215 THEN [n |-> 16777215, i |-> i, ok |-> FALSE]
             ELSE DtoiFrom(s, i + 1, m)

Dtoi(s) == DtoiFrom(s, 1, 0)

\* net.CIDRMask(ones, 8 * n): n bytes
CIDRMaskOf(ones, n) ==
    [ i \in 1..n |->
        IF ones >= 8 * i THEN 255
        ELSE IF ones <= 8 * (i - 1) THEN 0
        ELSE 256 - Pow2(8 * i - ones) ]

\* net.ParseCIDR: IP is the address as written, Net its network; the prefix
\* length is bounded by the address's bit length, 32 or 128
ParseCIDR(s) ==
    LET i    == IndexOf(s, "/")
        addr == ParseIP(SubSeq(s, 1, i - 1))
        d    == Dtoi(SubSeq(s, i + 1, Len(s)))
        m    == CIDRMaskOf(d.n, Len(addr))
    IN  IF i = 0 \/ addr = Nil THEN [err |-> "ParseError"]
        ELSE IF ~ d.ok \/ d.i # Len(s) - i \/ d.n > 8 * Len(addr)
        THEN [err |-> "ParseError"]
        ELSE [err  |-> "nil",
              IP   |-> addr,
              Mask |-> m,
              Net  |-> [IP |-> IPMaskOf(addr, m), Mask |-> m]]

\* strconv.ParseUint(s, 16, 32): the value as a uint32, or an error
RECURSIVE HexValue(_)
HexValue(s) ==
    IF s = << >> THEN << 0, 0 >>
    ELSE WAdd(WMul(16, HexValue(SubSeq(s, 1, Len(s) - 1))), << 0, HexVal(s[Len(s)]) >>)

\* s without its leading "0" characters
RECURSIVE TrimZeros(_)
TrimZeros(s) == IF s # << >> /\ s[1] = "0" THEN TrimZeros(Tail(s)) ELSE s

ParseUintHex32(s) ==
    IF s = << >> \/ \E i \in 1..Len(s) : ~ IsHexDigit(s[i])
    THEN [err |-> "syntax", v |-> << 0, 0 >>]
    ELSE IF Len(TrimZeros(s)) > 8 THEN [err |-> "range", v |-> << Limb - 1, Limb - 1 >>]
    ELSE [err |-> "nil", v |-> HexValue(TrimZeros(s))]

\* strconv.ParseInt(s, 16, 16) of a two-character slice: an optional sign, then
\* hexadecimal digits
ParseIntHex16(s) ==
    LET signed == s # << >> /\ s[1] \in {"+", "-"}
        digits == IF signed THEN Tail(s) ELSE s
    IN  IF digits = << >> \/ \E i \in 1..Len(digits) : ~ IsHexDigit(digits[i])
        THEN [err |-> "syntax", v |-> 0]
        ELSE LET v == HexValue(digits)[2]
             IN  [err |-> "nil", v |-> IF signed /\ s[1] = "-" THEN 0 - v ELSE v]

\* the digits of strconv.Atoi after the sign
SignedAtoi(sign, d) ==
    IF d = << >> \/ \E i \in 1..Len(d) : ~ IsDecDigit(d[i]) THEN [err |-> "syntax", v |-> 0]
    ELSE IF Len(TrimZeros(d)) > 18 THEN [err |-> "range", v |-> 0]
    ELSE IF Len(TrimZeros(d)) > 6
    THEN [err |-> "nil", v |-> IF sign = "-" THEN 0 - 1000000 ELSE 1000000]
    ELSE [err |-> "nil", v |-> IF sign = "-" THEN 0 - Atoi(d) ELSE Atoi(d)]

\* strconv.Atoi(s): an optional sign, then decimal digits.  Values of more
\* than 6 digits are all above every port number and stand as 1000000; those
\* of more than 18 digits are out of the range of an int.
StrconvAtoi(s) ==
    IF s = << >> THEN [err |-> "syntax", v |-> 0]
    ELSE IF s[1] \in {"+", "-"} THEN SignedAtoi(s[1], Tail(s))
    ELSE SignedAtoi("+", s)

\* ------------------------------------------------------------------------
\* package cmd: tcp ping
\* ------------------------------------------------------------------------

\* lines 67-72: a first argument holding ":" is split on ":", its first field
\* replaces it and its second field is appended to the arguments
SplitHostPort(a) ==
    IF Contains(a[1], ":")
    THEN << SplitOn(a[1], ":")[1] >> \o Tail(a) \o << SplitOn(a[1], ":")[2] >>
    ELSE a

\* lines 78-94: the port of the arguments a after the split
PortOf(a) ==
    IF Len(a) # 2 THEN [err |-> "nil", host |-> a[1], port |-> 443]
    ELSE IF StrconvAtoi(a[2]).err # "nil"
    THEN [err |-> "strconv.Atoi: " \o StrconvAtoi(a[2]).err, host |-> << >>, port |-> 0]
    ELSE IF StrconvAtoi(a[2]).v < 1 \/ StrconvAtoi(a[2]).v > 65535
    THEN [err |-> "invalid port number, must be between 1 and 65535",
          host |-> << >>, port |-> 0]
    ELSE [err |-> "nil", host |-> a[1], port |-> StrconvAtoi(a[2]).v]

\* pingCmd.RunE: the host and the port handed to tcpPingAction, or the error
PingTarget(a) ==
    IF Len(a) < 1 \/ Len(a) > 2
    THEN [err |-> "invalid number of arguments", host |-> << >>, port |-> 0]
    ELSE PortOf(SplitHostPort(a))

\* ------------------------------------------------------------------------
\* package ip
\* ------------------------------------------------------------------------

\* IsIPv4(s)
IsIPv4(s) == ParseIP(s) # Nil /\ Contains(s, ".")

\* regexp `0x` ReplaceAllString(s, ""): every non-overlapping "0x", left to right
RECURSIVE Strip0x(_)
Strip0x(s) ==
    IF Len(s) < 2 THEN s
    ELSE IF s[1] = "0" /\ s[2] = "x" THEN Strip0x(SubSeq(s, 3, Len(s)))
    ELSE << s[1] >> \o Strip0x(Tail(s))

\* IsIPv4Hex without the removal of "0x"
IsIPv4Hex_NoStrip(hexIP) ==
    Len(hexIP) = 8 /\ \A i \in 1..8 : IsHexDigit(hexIP[i])

\* IsIPv4Hex(hexIP)
IsIPv4Hex(hexIP) ==
    LET h == Strip0x(hexIP)
    IN  Len(h) = 8 /\ \A i \in 1..8 : IsHexDigit(h[i])

\* ParseIPv4FromHex(hexIP): the dotted-decimal text, or an error
ParseIPv4FromHex(hexIP) ==
    LET h == Strip0x(hexIP)
        b == [ i \in 1..4 |-> ParseIntHex16(SubSeq(h, 2 * i - 1, 2 * i)) ]
    IN  IF Len(h) # 8 THEN [err |-> "invalid length for hex IP address", text |-> << >>]
        ELSE IF \E i \in 1..4 : b[i].err # "nil"
        THEN [err |-> "ErrInvalidHexAddress", text |-> << >>]
        ELSE [err |-> "nil", text |-> FormatDotted([ i \in 1..4 |-> b[i].v % 256 ])]

\* NetmaskPrefixLength without the check of the mask's bit count
NetmaskPrefixLength_NoBitsCheck(mask) ==
    LET ip == ParseIP(mask)
    IN  IF ip = Nil THEN [err |-> "ErrInvalidNetmask", ones |-> 0]
        ELSE [err |-> "nil", ones |-> MaskSize(To4(ip)).ones]

\* NetmaskPrefixLength(mask)
NetmaskPrefixLength(mask) ==
    LET ip == ParseIP(mask)
    IN  IF ip = Nil THEN [err |-> "ErrInvalidNetmask", ones |-> 0]
        ELSE IF MaskSize(To4(ip)).bits # 32 THEN [err |-> "ErrInvalidNetmask", ones |-> 0]
        ELSE [err |-> "nil", ones |-> MaskSize(To4(ip)).ones]

\* ParseIPv4, the hexadecimal pass over the parts (lines 309-318): the parts
\* with every hexadecimal one replaced by its dotted-decimal text
HexPass(parts) ==
    [ i \in 1..Len(parts) |->
        IF IsIPv4Hex(parts[i]) THEN ParseIPv4FromHex(parts[i]).text ELSE parts[i] ]

HexPassErr(parts) ==
    LET bad == { i \in 1..Len(parts) :
                    IsIPv4Hex(parts[i]) /\ ParseIPv4FromHex(parts[i]).err # "nil" }
    IN  IF bad = {} THEN "nil"
        ELSE ParseIPv4FromHex(parts[CHOOSE i \in bad : \A j \in bad : i <= j]).err

\* ParseIPv4 with a default prefix length of 32 for a lone address
ParseIPv4_Default32(s) ==
    LET parts0 == FieldsFunc(s, {"/", " "})
        parts1 == HexPass(parts0)
    IN  IF HexPassErr(parts0) # "nil" THEN [err |-> HexPassErr(parts0)]
        ELSE IF Len(parts1) = 2
        THEN IF IsIPv4(parts1[2])
             THEN LET r == NetmaskPrefixLength(parts1[2])
                  IN  IF r.err # "nil" THEN [err |-> r.err]
                      ELSE ParseCIDR(Join(<< parts1[1], Itoa(r.ones) >>, << "/" >>))
             ELSE ParseCIDR(Join(parts1, << "/" >>))
        ELSE IF Len(parts1) = 1
        THEN ParseCIDR(Join(<< parts1[1], << "3", "2" >> >>, << "/" >>))
        ELSE [err |-> "invalid IP address"]

\* ParseIPv4(s): [err |-> "nil", IP, Mask, Net] or [err |-> the error]
ParseIPv4(s) ==
    LET parts0 == FieldsFunc(s, {"/", " "})
        parts1 == HexPass(parts0)
    IN  IF HexPassErr(parts0) # "nil" THEN [err |-> HexPassErr(parts0)]
        ELSE IF Len(parts1) = 2
        THEN IF IsIPv4(parts1[2])
             THEN LET r == NetmaskPrefixLength(parts1[2])
                  IN  IF r.err # "nil" THEN [err |-> r.err]
                      ELSE ParseCIDR(Join(<< parts1[1], Itoa(r.ones) >>, << "/" >>))
             ELSE ParseCIDR(Join(parts1, << "/" >>))
        ELSE IF Len(parts1) = 1
        THEN ParseCIDR(Join(<< parts1[1], << "2", "4" >> >>, << "/" >>))
        ELSE [err |-> "invalid IP address"]

\* The accessors of *IPv4; ip is a successful result of ParseIPv4.

\* net.IP.String()
IPString(ip) ==
    IF Len(ip) = 0 THEN << "<", "n", "i", "l", ">" >>
    ELSE IF To4(ip) # Nil THEN FormatDotted(To4(ip))
    ELSE V6String(ip)

\* Address reading the network's address
Address_OfNetwork(ip) == IPString(ip.Net.IP)

Address(ip) == IPString(ip.IP)

Netmask(ip) ==
    LET h == ParseUintHex32(MaskHexString(ip.Mask))
    IN  IF h.err # "nil" THEN << >> ELSE FormatDotted(U32ToBytes(h.v))

Wildcard(ip) ==
    LET h == ParseUintHex32(MaskHexString(ip.Mask))
    IN  IF h.err # "nil" THEN << >>
        ELSE FormatDotted([ i \in 1..4 |-> 255 - U32ToBytes(h.v)[i] ])

Network(ip) == IPString(ip.Net.IP)

PrefixLength(ip) == MaskSize(ip.Net.Mask).ones

\* Broadcast with the mask not complemented
Broadcast_NoComplement(ip) ==
    LET ipInt     == To4(ip.IP)
        ipInt32   == BytesToU32(ipInt)
        maskInt32 == BytesToU32(ip.Mask)
    IN  IF ipInt = Nil THEN << >> ELSE FormatDotted(U32ToBytes(Or32(ipInt32, maskInt32)))

Broadcast(ip) ==
    LET ipInt     == To4(ip.IP)
        ipInt32   == BytesToU32(ipInt)
        maskInt32 == BytesToU32(ip.Mask)
    IN  IF ipInt = Nil THEN << >> ELSE FormatDotted(U32ToBytes(Or32(ipInt32, Not32(maskInt32))))

\* FirstHost counting from the address instead of the network address
FirstHost_FromAddress(ip) ==
    LET ipInt     == To4(ip.IP)
        ipInt32   == BytesToU32(ipInt)
        maskInt32 == BytesToU32(ip.Mask)
        firstHostInt32 ==
            IF maskInt32 = << Limb - 1, Limb - 1 >> THEN ipInt32
            ELSE IF maskInt32 = << Limb - 1, Limb - 2 >> THEN ipInt32
            ELSE Add32(ipInt32, << 0, 1 >>)
    IN  IF ipInt = Nil THEN << >> ELSE FormatDotted(U32ToBytes(firstHostInt32))

FirstHost(ip) ==
    LET ipInt     == To4(ip.IP)
        ipInt32   == BytesToU32(ipInt)
        maskInt32 == BytesToU32(ip.Mask)
        firstHostInt32 ==
            IF maskInt32 = << Limb - 1, Limb - 1 >> THEN ipInt32
            ELSE IF maskInt32 = << Limb - 1, Limb - 2 >> THEN ipInt32
            ELSE Add32(And32(ipInt32, maskInt32), << 0, 1 >>)
    IN  IF ipInt = Nil THEN << >> ELSE FormatDotted(U32ToBytes(firstHostInt32))

LastHost(ip) ==
    LET ipInt     == To4(ip.IP)
        ipInt32   == BytesToU32(ipInt)
        maskInt32 == BytesToU32(ip.Mask)
        lastHostInt32 ==
            IF maskInt32 = << Limb - 1, Limb - 1 >> THEN ipInt32
            ELSE IF maskInt32 = << Limb - 1, Limb - 2 >> THEN Or32(ipInt32, Not32(maskInt32))
            ELSE Sub32(Or32(And32(ipInt32, maskInt32), Not32(maskInt32)), << 0, 1 >>)
    IN  IF ipInt = Nil THEN << >> ELSE FormatDotted(U32ToBytes(lastHostInt32))

\* String(): "%s/%d"
String(ip) == Address(ip) \o << "/" >> \o Itoa(PrefixLength(ip))

\* UsableHosts without the /32 case
UsableHosts_NoSlash32(ip) ==
    LET maskInt32 == BytesToU32(ip.Mask)
        ones      == MaskSize(ip.Net.Mask).ones
    IN  IF ones = 31 THEN << 0, 2 >>
        ELSE Sub32(Not32(maskInt32), << 0, 1 >>)

UsableHosts(ip) ==
    LET maskInt32 == BytesToU32(ip.Mask)
        ones      == MaskSize(ip.Net.Mask).ones
    IN  IF ones = 32 THEN << 0, 0 >>
        ELSE IF ones = 31 THEN << 0, 2 >>
        ELSE Sub32(Not32(maskInt32), << 0, 1 >>)

\* NetworkSize without the /0 clamp
NetworkSize_NoClamp(ip) ==
    LET maskInt32 == BytesToU32(ip.Mask)
    IN  Add32(Not32(maskInt32), << 0, 1 >>)

NetworkSize(ip) ==
    LET maskInt32 == BytesToU32(ip.Mask)
        ones      == MaskSize(ip.Net.Mask).ones
    IN  IF ones = 0 THEN << Limb - 1, Limb - 1 >>
        ELSE Add32(Not32(maskInt32), << 0, 1 >>)

\* IPv4ToInt(ipStr)
IPv4ToInt(ipStr) ==
    LET ip == To4(ParseIP(ipStr))
    IN  IF ip = Nil THEN << 0, 0 >>
        ELSE Add32(WMul(256, Add32(WMul(256, Add32(WMul(256, << 0, ip[1] >>),
                 << 0, ip[2] >>)), << 0, ip[3] >>)), << 0, ip[4] >>)

\* IntToIPv4 with the bytes in little-endian order
IntToIPv4_LittleEndian(ipInt) ==
    LET b == U32ToBytes(ipInt)
    IN  IPString(<< b[4], b[3], b[2], b[1] >>)

\* IntToIPv4(ipInt)
IntToIPv4(ipInt) == IPString(U32ToBytes(ipInt))

\* uint32 / int for a divisor 0 < n < 2^14, limb by limb
WQuot(w, n) == << w[1] \div n, ((w[1] % n) * Limb + w[2]) \div n >>

\* ------------------------------------------------------------------------
\* package utils
\* ------------------------------------------------------------------------

\* s without its trailing "0" characters
RECURSIVE TrimTrailingZeros(_)
TrimTrailingZeros(s) ==
    IF s # << >> /\ s[Len(s)] = "0" THEN TrimTrailingZeros(SubSeq(s, 1, Len(s) - 1)) ELSE s

\* n in decimal, padded with zeros on the left to w digits
RECURSIVE PadLeft(_, _)
PadLeft(s, w) == IF Len(s) >= w THEN s ELSE PadLeft(<< "0" >> \o s, w)

\* the date and the time of day of time.Now() in the layout
\* "2006-01-02 15:04:05": 19 characters for every year 0..9999
ClockText == << "2", "0", "2", "6", "-", "1", "1", "-", "0", "6", " ", "0", "7", ":", "0", "0", ":", "0", "0" >>

\* time.Now().Format("2006-01-02 15:04:05.999999999") at nsec nanoseconds
\* into the second: the fraction is written without its trailing zeros, and
\* without the point when it is zero
FormatNow(nsec) ==
    LET frac == TrimTrailingZeros(PadLeft(Itoa(nsec), 9))
    IN  IF frac = << >> THEN ClockText ELSE ClockText \o << "." >> \o frac

\* strings.Repeat("0", n): panics for n < 0
Repeat0(n) == [ i \in 1..n |-> "0" ]

\* the padding of GetTimestamp (line 35)
PadTimestamp(t) ==
    IF 27 - Len(t) < 0
    THEN [err |-> "panic: strings: negative Repeat count", text |-> << >>]
    ELSE [err |-> "nil", text |-> t \o Repeat0(27 - Len(t))]

\* GetTimestamp() at nsec nanoseconds into the second
GetTimestamp(nsec) == PadTimestamp(FormatNow(nsec))

\* math.Ceil(math.Log2(float64(n))) for n >= 1.  math.Log2 is exact on the
\* powers of two, and for every other n below 2^31 log2(n) is further from an
\* integer than the rounding error of a float64, so the ceiling is the
\* integer one.
RECURSIVE CeilLog2(_)
CeilLog2(n) == IF n <= 1 THEN 0 ELSE 1 + CeilLog2((n + 1) \div 2)

\* math.Floor(math.Log2(float64(n))) for n >= 1
RECURSIVE FloorLog2(_)
FloorLog2(n) == IF n <= 1 THEN 0 ELSE 1 + FloorLog2(n \div 2)

\* int(math.Log2(float64(w))) for a uint32 w >= 1: the logarithm rounded
\* down (math.Log2 is exact on the powers of two, and below 2^32 every other
\* logarithm is further from an integer than a float64's rounding error)
HostBitsOf(w) == IF w[1] > 0 THEN 16 + FloorLog2(w[1]) ELSE FloorLog2(w[2])

\* ClosestLargerPowerOfTwo rounding the logarithm down
ClosestLargerPowerOfTwo_Floor(n) ==
    IF n < 1 THEN 1 ELSE Pow2(FloorLog2(n))

\* ClosestLargerPowerOfTwo returning a power strictly larger than n
ClosestLargerPowerOfTwo_Strict(n) ==
    IF n < 1 THEN 1 ELSE Pow2(FloorLog2(n) + 1)

\* ClosestLargerPowerOfTwo(n)
ClosestLargerPowerOfTwo(n) ==
    IF n < 1 THEN 1 ELSE Pow2(CeilLog2(n))

\* int(math.Pow(2, float64(32-bits))) as a Go int: 2^(32-bits), and 0 for
\* the fractions 2^-1, 2^-2, ...
SubnetSizeOf(bits) ==
    IF bits > 32 THEN << 0, 0 >>
    ELSE IF 32 - bits >= 16 THEN << Pow2(16 - bits), 0 >>
    ELSE << 0, Pow2(32 - bits) >>

\* the children counted from the parent's address instead of its network
SplitSubnets_FromAddress(ip, bits, subnetCount) ==
    LET subnetSize  == SubnetSizeOf(bits)
        startSubnet == IPv4ToInt(Address(ip))
    IN  [ k \in 1..subnetCount |->
            ParseIPv4(IntToIPv4(Add32(startSubnet, ToU32(WMul(k - 1, subnetSize))))
                      \o << "/" >> \o Itoa(bits)) ]

\* the children one address apart instead of one subnet apart
SplitSubnets_StepOne(ip, bits, subnetCount) ==
    LET startSubnet == IPv4ToInt(Network(ip))
    IN  [ k \in 1..subnetCount |->
            ParseIPv4(IntToIPv4(Add32(startSubnet, << 0, k - 1 >>))
                      \o << "/" >> \o Itoa(bits)) ]

\* Split, the children (lines 493-510): subnetCount parsed subnets
SplitSubnets(ip, bits, subnetCount) ==
    LET subnetSize  == SubnetSizeOf(bits)
        startSubnet == IPv4ToInt(Network(ip))
    IN  [ k \in 1..subnetCount |->
            ParseIPv4(IntToIPv4(Add32(startSubnet, ToU32(WMul(k - 1, subnetSize))))
                      \o << "/" >> \o Itoa(bits)) ]

\* Split refusing a target equal to the prefix length
Split_RefusesEqual(ip, bits) ==
    IF PrefixLength(ip) >= bits
    THEN [err |-> "the number of bits must be greater than or equal to the prefix length",
          subnets |-> << >>]
    ELSE IF SubnetSizeOf(bits) = << 0, 0 >>
    THEN [err |-> "panic: integer divide by zero", subnets |-> << >>]
    ELSE LET subnetCount == WDiv(NetworkSize(ip), SubnetSizeOf(bits))
             subnets     == SplitSubnets(ip, bits, subnetCount)
         IN  [err |-> "nil", subnets |-> subnets]

\* Split(bits): [err |-> "nil", subnets], an error, or the run-time panic of
\* an integer division by zero
Split(ip, bits) ==
    IF PrefixLength(ip) > bits
    THEN [err |-> "the number of bits must be greater than or equal to the prefix length",
          subnets |-> << >>]
    ELSE IF SubnetSizeOf(bits) = << 0, 0 >>
    THEN [err |-> "panic: integer divide by zero", subnets |-> << >>]
    ELSE LET subnetCount == WDiv(NetworkSize(ip), SubnetSizeOf(bits))
             subnets     == SplitSubnets(ip, bits, subnetCount)
             bad         == { k \in 1..subnetCount : subnets[k].err # "nil" }
         IN  IF bad # {}
             THEN [err |-> subnets[CHOOSE k \in bad : \A j \in bad : k <= j].err,
                   subnets |-> << >>]
             ELSE [err |-> "nil", subnets |-> subnets]

\* ------------------------------------------------------------------------
\* Inputs
\* ------------------------------------------------------------------------

\* Split targets tried on a network of prefix length p lie within
\* MaxSplitBits of p (at most 2^MaxSplitBits children), or are MaxBits + 1.
MaxSplitBits == 2

\* bits of an IPv4 address
MaxBits == 32

\* the addresses given on the command line
Addrs == { << 10, 0, 0, 1 >>, << 192, 168, 0, 254 >>,
           << 0, 0, 0, 0 >>, << 255, 255, 255, 255 >> }

HexText(b, digits) ==
    LET h(n) == << digits[(n \div 16) + 1], digits[(n % 16) + 1] >>
    IN  h(b[1]) \o h(b[2]) \o h(b[3]) \o h(b[4])

\* an address or mask written in one of the accepted notations
Written(b, form) ==
    CASE form = "dec"   -> FormatDotted(b)
      [] form = "hex"   -> HexText(b, HexLower)
      [] form = "HEX"   -> HexText(b, HexUpper)
      [] form = "0xhex" -> << "0", "x" >> \o HexText(b, HexLower)
      [] form = "0xHEX" -> << "0", "x" >> \o HexText(b, HexUpper)

\* <<address notation, mask notation>>: "prefix" is a/p, "none" the address
\* alone, every other mask notation is "a M"
Forms == { << "dec", "prefix" >>, << "dec", "dec" >>, << "hex", "prefix" >>,
           << "0xhex", "prefix" >>, << "0xhex", "hex" >>, << "HEX", "0xHEX" >>,
           << "dec", "hex" >>, << "hex", "dec" >>,
           << "dec", "none" >>, << "hex", "none" >>, << "0xHEX", "none" >> }

\* the command-line text for address a with prefix length p in notation f
InputText(a, p, f) ==
    CASE f[2] = "none"   -> Written(a, f[1])
      [] f[2] = "prefix" -> Written(a, f[1]) \o << "/" >> \o Itoa(p)
      [] OTHER           -> Written(a, f[1]) \o << " " >> \o Written(CIDRMask(p), f[2])

\* the masks written as the second token: not contiguous, and contiguous
Masks == { << 255, 0, 255, 0 >>, << 255, 255, 255, 1 >>, << 0, 255, 0, 0 >>,
           << 255, 255, 253, 0 >>, << 0, 0, 0, 1 >>, << 127, 255, 255, 255 >>,
           << 0, 0, 0, 0 >>, << 255, 255, 255, 255 >>, << 255, 255, 254, 0 >>,
           << 128, 0, 0, 0 >> }

\* <<address notation, mask notation>> of the inputs "a M"
MaskForms == { << "dec", "dec" >>, << "dec", "hex" >>, << "dec", "0xhex" >>,
               << "hex", "dec" >>, << "0xhex", "HEX" >> }

\* the octets of the addresses converted to integers and back
Octets == { 0, 7, 10, 100, 255 }

\* the halves of the integers converted to addresses and back
Halves == { 0, 1, 255, 256, Limb - 1 }

\* command-line texts that are no "a/p" or "a M" of an IPv4 address and mask,
\* and some that are
RawInputs ==
    { << ":", ":", "1", "/", "6", "4" >>,   \* ::1/64
      << ":", ":", "f", "f", "f", "f", ":", "1", ".", "2", ".", "3", ".", "4", "/", "1", "2", "0" >>,   \* ::ffff:1.2.3.4/120
      << ":", ":", "f", "f", "f", "f", ":", "1", "0", ".", "0", ".", "0", ".", "1", "/", "2", "4" >>,   \* ::ffff:10.0.0.1/24
      << "2", "0", "0", "1", ":", "d", "b", "8", ":", ":", "/", "3", "2" >>,   \* 2001:db8::/32
      << ":", ":", "/", "0" >>,   \* ::/0
      << "1", ".", "2", ".", "3", "/", "2", "4" >>,   \* 1.2.3/24
      << "2", "5", "6", ".", "1", ".", "1", ".", "1", "/", "2", "4" >>,   \* 256.1.1.1/24
      << "0", "1", ".", "2", ".", "3", ".", "4", "/", "2", "4" >>,   \* 01.2.3.4/24
      << "1", ".", "2", ".", "3", ".", "4", "/", "3", "3" >>,   \* 1.2.3.4/33
      << "1", ".", "2", ".", "3", ".", "4", "/", "-", "1" >>,   \* 1.2.3.4/-1
      << "1", ".", "2", ".", "3", ".", "4", "/" >>,   \* 1.2.3.4/
      << "1", ".", "2", ".", "3", ".", "4", " ", "5", " ", "6" >>,   \* 1.2.3.4 5 6
      << >>,   \* the empty text
      << "/", "2", "4" >>,   \* /24
      << "c", "0", "a", "8", "0", "0", "f", "/", "2", "4" >>,   \* c0a800f/24
      << "g", "0", "a", "8", "0", "0", "f", "e", "/", "2", "4" >>,   \* g0a800fe/24
      << "-", "1", "-", "1", "-", "1", "-", "1", "/", "2", "4" >>,   \* -1-1-1-1/24
      << "c", "0", "a", "8", "0", "x", "0", "0", "f", "e", "/", "2", "4" >>,   \* c0a80x00fe/24
      << "0", "X", "C", "0", "A", "8", "0", "0", "F", "E", "/", "2", "4" >>,   \* 0XC0A800FE/24
      << "1", ".", "2", ".", "3", ".", "4", "/", ":", ":", "f", "f", "f", "f", ":", "2", "5", "5", ".", "2", "5", "5", ".", "0", ".", "0" >>,   \* 1.2.3.4/::ffff:255.255.0.0
      << "1", ".", "2", ".", "3", ".", "4", "/", ":", ":", "1", ".", "2", ".", "3", ".", "4" >>,   \* 1.2.3.4/::1.2.3.4
      << "1", "0", ".", "0", ".", "0", ".", "1", "/", "0", "2", "4" >>,   \* 10.0.0.1/024
      << ":", ":", "1" >> }   \* ::1

\* tokens handed to the conversions
Tokens ==
    { << "c", "0", "a", "8", "0", "0", "f", "e" >>,   \* c0a800fe
      << "0", "x", "c", "0", "a", "8", "0", "0", "f", "e" >>,   \* 0xc0a800fe
      << "0", "X", "C", "0", "A", "8", "0", "0", "F", "E" >>,   \* 0XC0A800FE
      << "C", "0", "A", "8", "0", "0", "F", "E" >>,   \* C0A800FE
      << "c", "0", "a", "8", "0", "x", "0", "0", "f", "e" >>,   \* c0a80x00fe
      << "0", "x", "0", "x", "c", "0", "a", "8", "0", "0", "f", "e" >>,   \* 0x0xc0a800fe
      << "c", "0", "a", "8", "0", "0", "f", "e", "0", "x" >>,   \* c0a800fe0x
      << "c", "0", "a", "8", "0", "0", "f" >>,   \* c0a800f
      << "c", "0", "a", "8", "0", "0", "f", "e", "0" >>,   \* c0a800fe0
      << "g", "0", "a", "8", "0", "0", "f", "e" >>,   \* g0a800fe
      << "+", "f", "+", "f", "+", "f", "+", "f" >>,   \* +f+f+f+f
      << "-", "1", "-", "1", "-", "1", "-", "1" >>,   \* -1-1-1-1
      << "0", "y", "0", "a", "0", "0", "0", "0", "0", "1" >>,   \* 0y0a000001
      << "n", "o", "t", "h", "e", "x", "y", "o" >>,   \* nothexyo
      << "0", "x" >>,   \* 0x
      << >>,   \* the empty text
      << "1", ".", "2", ".", "3" >>,   \* 1.2.3
      << "2", "5", "6", ".", "1", ".", "1", ".", "1" >>,   \* 256.1.1.1
      << "0", "1", ".", "2", ".", "3", ".", "4" >>,   \* 01.2.3.4
      << "1", ".", "2", ".", "3", ".", "4", ".", "5" >>,   \* 1.2.3.4.5
      << "1", ".", "2", ".", "3", ".", "x" >>,   \* 1.2.3.x
      << ":", ":", "f", "f", "f", "f", ":", "1", ".", "2", ".", "3", ".", "4" >>,   \* ::ffff:1.2.3.4
      << ":", ":", "1" >>,   \* ::1
      << "1", ".", "2", ".", "3", ".", "4" >> }   \* 1.2.3.4

\* bound of the number of networks asked for
MaxNetworks == 260

\* bound of the number of networks asked of a split
MaxSplitNetworks == 5

\* ------------------------------------------------------------------------
\* State
\* ------------------------------------------------------------------------

VARIABLES
    denoted,     \* what the input was written from: its kind, address, prefix length, notation, mask
    input,       \* the text handed to ParseIPv4 or to the conversions
    network,     \* the result of ParseIPv4(input)
    data,        \* the values of the accessors of network
    bits,        \* the argument of Split
    prefixList,  \* the result of network.Split(bits)
    reparsed,    \* the result of ParseIPv4(network.String())
    codec,       \* the results of the conversions
    number,      \* the uint32 handed to IntToIPv4
    networks,    \* the number of networks asked for
    subnets,     \* the number of subnets made for them
    pc,          \* "start", "parsed", "inspected", "split", "reparsed",
                 \* "token", "converted", "number", "formatted", "count", "counted",
                 \* "splitnetworks", "clock", "stamped", "args", "ran", "ping"
    now,         \* the nanoseconds of the current time
    currentTime, \* the result of GetTimestamp()
    args,        \* the arguments of the tcp ping command
    target,      \* the host and port tcpPingAction is called with, or the error
    \* tcpPingAction
    count,                \* --count
    packetsSent,
    packetsReceived,
    minResponseTime,
    maxResponseTime,
    avgResponseTime,
    mdevResponseTime,
    totResponseTime,
    totResponseDeviation,
    interrupt,            \* the signals in the channel (capacity 1)
    loopPc,               \* the ping loop: "off", "head", "pinging", "check", "sleep"
    handlerPc,            \* the goroutine: "off", "wait", "got", "loss", "done"
    sig,                  \* the signal the goroutine received
    exited,               \* "no", "exit 0" (os.Exit(0) after the report), "panic"
    report,               \* the statistics printed
    rtts,                 \* the round-trip times of the successful pings so far
    delivered,            \* os.Interrupt was delivered to the process
    signals               \* the number of signals delivered so far

coreVars == << denoted, input, network, data, bits, prefixList, reparsed, codec,
               number, networks, subnets, pc >>

cmdVars == << now, currentTime, args, target >>

pingVars == << count, packetsSent, packetsReceived, minResponseTime, maxResponseTime,
               avgResponseTime, mdevResponseTime, totResponseTime,
               totResponseDeviation, interrupt, loopPc, handlerPc, sig, exited,
               report, rtts, delivered, signals >>

vars == << coreVars, cmdVars, pingVars >>

None == [err |-> "none"]

\* an input that was not written from an address and a prefix length
Blank(kind) == [kind |-> kind, addr |-> << >>, plen |-> -1,
                form |-> << "raw", "raw" >>, mask |-> << >>]

\* the counters and the channel of tcpPingAction as declared (lines 119-132)
PingFresh ==
    /\ packetsSent = 0
    /\ packetsReceived = 0
    /\ minResponseTime = 0
    /\ maxResponseTime = 0
    /\ avgResponseTime = 0
    /\ mdevResponseTime = 0
    /\ totResponseTime = 0
    /\ totResponseDeviation = 0
    /\ interrupt = << >>
    /\ sig = "none"
    /\ exited = "no"
    /\ report = None
    /\ rtts = << >>
    /\ delivered = FALSE
    /\ signals = 0

\* tcpPingAction is not running
PingOff ==
    /\ PingFresh
    /\ count = 0
    /\ loopPc = "off"
    /\ handlerPc = "off"

\* the prefix length a mask stands for, -1 if it is not contiguous
OnesOf(m) ==
    IF \E p \in 0..MaxBits : CIDRMask(p) = m
    THEN CHOOSE p \in 0..MaxBits : CIDRMask(p) = m
    ELSE -1

\* time.Now(): nanoseconds into the second, with 0 to 9 significant
\* fractional digits
Nanos ==
    { 0, 500000000, 120000000, 123000000, 123400000, 123450000, 123456000,
      123456700, 123456780, 123456789, 999999999, 1, 10, 100 }

\* the command-line arguments of "tcp ping": host, host port, host:port, ...
ArgLists ==
    { << >>,
      << << "1", ".", "0", ".", "0", ".", "1" >> >>,
      << << "1", ".", "0", ".", "0", ".", "1" >>, << "4", "4", "3" >> >>,
      << << "1", ".", "0", ".", "0", ".", "1" >>, << "5", "3" >> >>,
      << << "1", ".", "0", ".", "0", ".", "1" >>, << "0" >> >>,
      << << "1", ".", "0", ".", "0", ".", "1" >>, << "6", "5", "5", "3", "5" >> >>,
      << << "1", ".", "0", ".", "0", ".", "1" >>, << "6", "5", "5", "3", "6" >> >>,
      << << "1", ".", "0", ".", "0", ".", "1" >>, << "h", "t", "t", "p" >> >>,
      << << "1", ".", "0", ".", "0", ".", "1", ":", "5", "3" >> >>,
      << << "1", ".", "0", ".", "0", ".", "1", ":" >> >>,
      << << "1", ".", "0", ".", "0", ".", "1", ":", "0" >> >>,
      << << "1", ".", "0", ".", "0", ".", "1", ":", "4", "4", "3" >> >>,
      << << "1", ".", "0", ".", "0", ".", "1", ":", "5", "3" >>, << "8", "0" >> >>,
      << << "1", ".", "0", ".", "0", ".", "1", ":", "5", "3" >>, << "5", "3" >> >>,
      << << "1", ".", "0", ".", "0", ".", "1", ":", "8", "0" >>, << "h", "t", "t", "p" >> >>,
      << << "1", ".", "0", ".", "0", ".", "1" >>, << "8", "0" >>, << "8", "1" >> >>,
      << << ":", ":", "1" >> >>,
      << << "[", ":", ":", "1", "]", ":", "5", "3" >> >>,
      << << "1", ".", "0", ".", "0", ".", "1" >>, << "9", "9", "9", "9", "9", "9", "9", "9", "9", "9", "9", "9", "9", "9", "9", "9", "9", "9", "9", "9" >> >>,
      << << "1", ".", "0", ".", "0", ".", "1" >>, << "1", "0", "0", "0", "0", "0", "0" >> >>,
      << << "1", ".", "0", ".", "0", ".", "1" >>, << "+", "5", "3" >> >>,
      << << "1", ".", "0", ".", "0", ".", "1" >>, << "-", "1" >> >>,
      << << "1", ".", "0", ".", "0", ".", "1" >>, << >> >> }

\* the inputs of ParseIPv4, of the conversions and of ClosestLargerPowerOfTwo
InitInput ==
    \/ \E a \in Addrs, p \in 0..MaxBits, f \in Forms :
          /\ (f[2] = "none" => p = 24)
          /\ denoted = [kind |-> "net", addr |-> a, plen |-> p, form |-> f,
                           mask |-> CIDRMask(p)]
          /\ input = InputText(a, p, f)
          /\ number = << 0, 0 >> /\ networks = 0 /\ pc = "start"
    \/ \E a \in Addrs, m \in Masks, f \in MaskForms :
          /\ denoted = [kind |-> "mask", addr |-> a, plen |-> OnesOf(m), form |-> f,
                           mask |-> m]
          /\ input = Written(a, f[1]) \o << " " >> \o Written(m, f[2])
          /\ number = << 0, 0 >> /\ networks = 0 /\ pc = "start"
    \/ \E t \in RawInputs :
          /\ denoted = Blank("text")
          /\ input = t
          /\ number = << 0, 0 >> /\ networks = 0 /\ pc = "start"
    \/ \E t \in Tokens :
          /\ denoted = Blank("token")
          /\ input = t
          /\ number = << 0, 0 >> /\ networks = 0 /\ pc = "token"
    \/ \E o1 \in Octets, o2 \in Octets, o3 \in Octets, o4 \in Octets :
          /\ denoted = [Blank("addr") EXCEPT !.addr = << o1, o2, o3, o4 >>]
          /\ input = FormatDotted(<< o1, o2, o3, o4 >>)
          /\ number = << 0, 0 >> /\ networks = 0 /\ pc = "token"
    \/ \E h \in Halves, l \in Halves :
          /\ denoted = Blank("number")
          /\ input = << >>
          /\ number = << h, l >> /\ networks = 0 /\ pc = "number"
    \/ \E n \in (0 - MaxNetworks)..MaxNetworks :
          /\ denoted = Blank("count")
          /\ input = << >>
          /\ number = << 0, 0 >> /\ networks = n /\ pc = "count"

Init ==
    /\ \/ InitInput /\ now = 0 /\ args = << >>
       \/ \E n \in Nanos :
             /\ denoted = Blank("time")
             /\ input = << >>
             /\ number = << 0, 0 >> /\ networks = 0 /\ pc = "clock"
             /\ now = n /\ args = << >>
       \/ \E a \in ArgLists :
             /\ denoted = Blank("args")
             /\ input = << >>
             /\ number = << 0, 0 >> /\ networks = 0 /\ pc = "args"
             /\ now = 0 /\ args = a
    /\ network = None
    /\ data = None
    /\ bits = -1
    /\ prefixList = None
    /\ reparsed = None
    /\ codec = None
    /\ subnets = -1
    /\ currentTime = None
    /\ target = None
    /\ PingOff

\* network, err := ip.ParseIPv4(s)
Parse ==
    /\ pc = "start"
    /\ network' = ParseIPv4(input)
    /\ pc' = "parsed"
    /\ UNCHANGED << denoted, input, data, bits, prefixList, reparsed, codec,
                    number, networks, subnets >>
    /\ UNCHANGED << cmdVars, pingVars >>

\* the accessors of the parsed network, as read by inspectAction
Inspect ==
    /\ pc = "parsed"
    /\ network.err = "nil"
    /\ data' = [err          |-> "nil",
                Address      |-> Address(network),
                Netmask      |-> Netmask(network),
                Wildcard     |-> Wildcard(network),
                Network      |-> Network(network),
                Broadcast    |-> Broadcast(network),
                FirstHost    |-> FirstHost(network),
                LastHost     |-> LastHost(network),
                UsableHosts  |-> UsableHosts(network),
                NetworkSize  |-> NetworkSize(network),
                PrefixLength |-> PrefixLength(network),
                String       |-> String(network)]
    /\ pc' = "inspected"
    /\ UNCHANGED << denoted, input, network, bits, prefixList, reparsed, codec,
                    number, networks, subnets >>
    /\ UNCHANGED << cmdVars, pingVars >>

\* prefixList, err := network.Split(bits)
DoSplit ==
    /\ pc = "parsed"
    /\ network.err = "nil"
    /\ \E t \in -1..(MaxBits + 1) :
          /\ \/ t = MaxBits + 1
             \/ /\ t - PrefixLength(network) <= MaxSplitBits
                /\ PrefixLength(network) - t <= MaxSplitBits
          /\ bits' = t
          /\ prefixList' = Split(network, t)
    /\ pc' = "split"
    /\ UNCHANGED << denoted, input, network, data, reparsed, codec,
                    number, networks, subnets >>
    /\ UNCHANGED << cmdVars, pingVars >>

\* ParseIPv4 of the network's own String()
Reparse ==
    /\ pc = "parsed"
    /\ network.err = "nil"
    /\ reparsed' = ParseIPv4(String(network))
    /\ pc' = "reparsed"
    /\ UNCHANGED << denoted, input, network, data, bits, prefixList, codec,
                    number, networks, subnets >>
    /\ UNCHANGED << cmdVars, pingVars >>

\* the conversions of one token
Convert ==
    /\ pc = "token"
    /\ codec' = [err     |-> "nil",
                 isHex   |-> IsIPv4Hex(input),
                 fromHex |-> ParseIPv4FromHex(input),
                 toInt   |-> IPv4ToInt(input),
                 back    |-> IntToIPv4(IPv4ToInt(input))]
    /\ pc' = "converted"
    /\ UNCHANGED << denoted, input, network, data, bits, prefixList, reparsed,
                    number, networks, subnets >>
    /\ UNCHANGED << cmdVars, pingVars >>

\* the conversion of one integer to text and back
Format ==
    /\ pc = "number"
    /\ codec' = [err  |-> "nil",
                 text |-> IntToIPv4(number),
                 back |-> IPv4ToInt(IntToIPv4(number))]
    /\ pc' = "formatted"
    /\ UNCHANGED << denoted, input, network, data, bits, prefixList, reparsed,
                    number, networks, subnets >>
    /\ UNCHANGED << cmdVars, pingVars >>

\* subnets := utils.ClosestLargerPowerOfTwo(networks)
CountSubnets ==
    /\ pc = "count"
    /\ subnets' = ClosestLargerPowerOfTwo(networks)
    /\ pc' = "counted"
    /\ UNCHANGED << denoted, input, network, data, bits, prefixList, reparsed,
                    codec, number, networks >>
    /\ UNCHANGED << cmdVars, pingVars >>

\* subnetSplitAction with --networks n (lines 82-98): the number of bits from
\* the number of networks, then network.Split(bits).  When there are more
\* subnets than addresses subnetSize is 0, math.Log2 gives -Inf and the
\* conversion to int is implementation-dependent: bits is then any integer,
\* here one below every prefix length, 32, or one above 32.
SplitNetworks ==
    /\ pc = "parsed"
    /\ network.err = "nil"
    /\ \E n \in 1..MaxSplitNetworks :
          LET subnetSize == WQuot(NetworkSize(network), ClosestLargerPowerOfTwo(n))
          IN  /\ networks' = n
              /\ subnets' = ClosestLargerPowerOfTwo(n)
              /\ \E b \in {-1, MaxBits, MaxBits + 1} :
                    /\ subnetSize # << 0, 0 >> => b = MaxBits
                    /\ bits' = IF subnetSize = << 0, 0 >> THEN b
                               ELSE MaxBits - HostBitsOf(subnetSize)
              /\ prefixList' = Split(network, bits')
    /\ pc' = "splitnetworks"
    /\ UNCHANGED << denoted, input, network, data, reparsed, codec, number >>
    /\ UNCHANGED << cmdVars, pingVars >>

\* the loop's use of utils.GetTimestamp() (tcpPing.go lines 219-223)
Timestamp ==
    /\ pc = "clock"
    /\ currentTime' = GetTimestamp(now)
    /\ pc' = "stamped"
    /\ UNCHANGED << denoted, input, network, data, bits, prefixList, reparsed,
                    codec, number, networks, subnets >>
    /\ UNCHANGED << now, args, target, pingVars >>

\* pingCmd.RunE up to the call of tcpPingAction(os.Stdout, host, port)
RunE ==
    /\ pc = "args"
    /\ target' = PingTarget(args)
    /\ pc' = "ran"
    /\ UNCHANGED << denoted, input, network, data, bits, prefixList, reparsed,
                    codec, number, networks, subnets >>
    /\ UNCHANGED << now, currentTime, args, pingVars >>

Next == SplitNetworks \/ Timestamp \/ RunE \/ Parse \/ Inspect \/ DoSplit \/ Reparse \/ Convert \/ Format \/ CountSubnets

Spec == Init /\ [][Next]_vars

\* ------------------------------------------------------------------------
\* tcpPingAction: the ping loop and the goroutine that waits for a signal
\* ------------------------------------------------------------------------

MaxCount == 2        \* --count is 0 (no limit) .. MaxCount
MaxPackets == 3      \* the loop is followed for MaxPackets packets
MaxSignals == 2      \* signals delivered to the process

\* the round-trip times PingTCP returns
RTTs == { 1, 4 }

\* the nanoseconds of the clock when the loop calls GetTimestamp()
PingNanos == { 100, 123456789 }

Signals == { "interrupt", "term" }

\* the running statistics of the loop
statVars == << packetsReceived, minResponseTime, maxResponseTime, avgResponseTime,
               totResponseTime, totResponseDeviation, rtts >>

\* what the goroutine alone writes
handlerVars == << handlerPc, sig, mdevResponseTime, report >>

\* what tcpPingAction leaves alone
idleVars == << coreVars, now, args, target, count >>

Abs(x) == IF x < 0 THEN 0 - x ELSE x

\* the state at line 206: counters declared, signal.Notify called, goroutine
\* started and waiting on the channel, loop about to start
PingInit ==
    /\ denoted = Blank("ping")
    /\ input = << >>
    /\ number = << 0, 0 >> /\ networks = 0 /\ pc = "ping"
    /\ network = None
    /\ data = None
    /\ bits = -1
    /\ prefixList = None
    /\ reparsed = None
    /\ codec = None
    /\ subnets = -1
    /\ now = 0 /\ args = << >>
    /\ currentTime = None
    /\ target = None
    /\ PingFresh
    /\ count \in 0..MaxCount
    /\ loopPc = "head"
    /\ handlerPc = "wait"

\* currentTime := utils.GetTimestamp() at n nanoseconds into the second; its
\* panic ends the process
Stamped(n) ==
    /\ currentTime' = GetTimestamp(n)
    /\ exited' = IF GetTimestamp(n).err = "nil" THEN exited ELSE "panic"

\* line 212: packetsSent++, then PingTCP is called
LoopSend ==
    /\ exited = "no"
    /\ loopPc = "head"
    /\ packetsSent < MaxPackets
    /\ packetsSent' = packetsSent + 1
    /\ loopPc' = "pinging"
    /\ UNCHANGED << idleVars, currentTime, statVars, interrupt, exited, handlerVars,
                    delivered, signals >>

\* lines 218-254: PingTCP returned an error; the message is printed and the
\* loop continues with the next packet
PingFail ==
    /\ exited = "no"
    /\ loopPc = "pinging"
    /\ \E n \in PingNanos : Stamped(n)
    /\ loopPc' = "head"
    /\ UNCHANGED << idleVars, packetsSent, statVars, interrupt, handlerVars,
                    delivered, signals >>

\* PingOk with the mean taken over the packets sent
PingOk_AvgOverSent ==
    /\ exited = "no"
    /\ loopPc = "pinging"
    /\ \E responseTime \in RTTs :
          /\ packetsReceived' = packetsReceived + 1
          /\ totResponseTime' = totResponseTime + responseTime
          /\ minResponseTime' = IF packetsReceived' = 1 \/ responseTime < minResponseTime
                                THEN responseTime ELSE minResponseTime
          /\ maxResponseTime' = IF packetsReceived' = 1 \/ responseTime > maxResponseTime
                                THEN responseTime ELSE maxResponseTime
          /\ avgResponseTime' = totResponseTime' \div packetsSent
          /\ totResponseDeviation' =
                 totResponseDeviation + Abs(responseTime - avgResponseTime')
          /\ rtts' = Append(rtts, responseTime)
    /\ \E n \in PingNanos : Stamped(n)
    /\ loopPc' = "check"
    /\ UNCHANGED << idleVars, packetsSent, interrupt, handlerVars, delivered, signals >>

\* lines 256-324: PingTCP returned responseTime; the statistics are updated
\* and the line is printed
PingOk ==
    /\ exited = "no"
    /\ loopPc = "pinging"
    /\ \E responseTime \in RTTs :
          /\ packetsReceived' = packetsReceived + 1
          /\ totResponseTime' = totResponseTime + responseTime
          /\ minResponseTime' = IF packetsReceived' = 1 \/ responseTime < minResponseTime
                                THEN responseTime ELSE minResponseTime
          /\ maxResponseTime' = IF packetsReceived' = 1 \/ responseTime > maxResponseTime
                                THEN responseTime ELSE maxResponseTime
          /\ avgResponseTime' = totResponseTime' \div packetsReceived'
          /\ totResponseDeviation' =
                 totResponseDeviation + Abs(responseTime - avgResponseTime')
          /\ rtts' = Append(rtts, responseTime)
    /\ \E n \in PingNanos : Stamped(n)
    /\ loopPc' = "check"
    /\ UNCHANGED << idleVars, packetsSent, interrupt, handlerVars, delivered, signals >>

\* lines 327-330: with --count reached, os.Interrupt is sent on the channel;
\* the send waits while the channel is full
CountCheck ==
    /\ exited = "no"
    /\ loopPc = "check"
    /\ IF count > 0 /\ packetsSent >= count
       THEN /\ Len(interrupt) < 1
            /\ interrupt' = Append(interrupt, "interrupt")
       ELSE UNCHANGED interrupt
    /\ loopPc' = "sleep"
    /\ UNCHANGED << idleVars, currentTime, packetsSent, statVars, exited, handlerVars,
                    delivered, signals >>

\* line 333: time.Sleep(delay)
Sleep ==
    /\ exited = "no"
    /\ loopPc = "sleep"
    /\ loopPc' = "head"
    /\ UNCHANGED << idleVars, currentTime, packetsSent, statVars, interrupt, exited,
                    handlerVars, delivered, signals >>

\* signal.Notify (line 120): a signal delivered to the process is sent on
\* the channel without blocking, and dropped when the channel is full
Notify(s) ==
    /\ exited = "no"
    /\ signals < MaxSignals
    /\ signals' = signals + 1
    /\ interrupt' = IF Len(interrupt) < 1 THEN Append(interrupt, s) ELSE interrupt
    /\ UNCHANGED << idleVars, currentTime, packetsSent, statVars, loopPc, exited,
                    handlerVars >>

\* the user presses Ctrl-C
DeliverInterrupt == Notify("interrupt") /\ delivered' = TRUE

\* the process is sent SIGTERM
DeliverTerm == Notify("term") /\ UNCHANGED delivered

\* line 168: sig := <-interrupt
Receive ==
    /\ exited = "no"
    /\ handlerPc = "wait"
    /\ interrupt # << >>
    /\ sig' = Head(interrupt)
    /\ interrupt' = Tail(interrupt)
    /\ handlerPc' = "got"
    /\ UNCHANGED << idleVars, currentTime, packetsSent, statVars, loopPc, exited,
                    mdevResponseTime, report, delivered, signals >>

\* lines 171-175: for os.Interrupt the mean deviation is computed from the
\* counters as they are now; for any other signal the goroutine ends
ComputeMdev ==
    /\ exited = "no"
    /\ handlerPc = "got"
    /\ IF sig = "interrupt"
       THEN /\ mdevResponseTime' = IF packetsReceived > 1
                                   THEN totResponseDeviation \div packetsReceived
                                   ELSE mdevResponseTime
            /\ handlerPc' = "loss"
       ELSE /\ handlerPc' = "done"
            /\ UNCHANGED mdevResponseTime
    /\ UNCHANGED << idleVars, currentTime, packetsSent, statVars, interrupt, loopPc,
                    exited, sig, report, delivered, signals >>

\* lines 178-202: the packet loss and the report from the counters as they
\* are now, then os.Exit(0); the division of line 188 panics for packetsSent = 0
Report ==
    /\ exited = "no"
    /\ handlerPc = "loss"
    /\ IF packetsSent = 0
       THEN /\ exited' = "panic"
            /\ UNCHANGED report
       ELSE /\ report' = [ err |-> "nil",
                           packetsSent |-> packetsSent,
                           packetsReceived |-> packetsReceived,
                           packetLoss |-> ((packetsSent - packetsReceived) * 100)
                                              \div packetsSent,
                           min |-> minResponseTime,
                           avg |-> avgResponseTime,
                           max |-> maxResponseTime,
                           mdev |-> mdevResponseTime ]
            /\ exited' = "exit 0"
    /\ handlerPc' = "done"
    /\ UNCHANGED << idleVars, currentTime, packetsSent, statVars, interrupt, loopPc,
                    sig, mdevResponseTime, delivered, signals >>

PingNext ==
    \/ LoopSend \/ PingFail \/ PingOk \/ CountCheck \/ Sleep
    \/ DeliverInterrupt \/ DeliverTerm
    \/ Receive \/ ComputeMdev \/ Report

\* Both goroutines are scheduled and PingTCP returns (it has a timeout);
\* nothing obliges a signal to be delivered.
PingSpec ==
    /\ PingInit
    /\ [][PingNext]_vars
    /\ WF_vars(LoopSend)
    /\ WF_vars(PingFail \/ PingOk)
    /\ WF_vars(CountCheck)
    /\ WF_vars(Sleep)
    /\ WF_vars(Receive)
    /\ WF_vars(ComputeMdev)
    /\ WF_vars(Report)

\* ------------------------------------------------------------------------
\* Reference arithmetic for the properties (plain arithmetic on the limbs,
\* no bit operators and no wrap-around)
\* ------------------------------------------------------------------------

\* 2^k for k in 0..32
PowW(k) == IF k >= 16 THEN << Pow2(k - 16), 0 >> ELSE << 0, Pow2(k) >>

\* the number a dotted-decimal text denotes
Val(text) == BytesToU32(ParseIP(text))

\* a with its low 32-p bits cleared, and with them set
RefNetwork(a, p) ==
    IF p >= 16 THEN << a[1], a[2] - (a[2] % Pow2(32 - p)) >>
    ELSE << a[1] - (a[1] % Pow2(16 - p)), 0 >>

RefBroadcast(a, p) == WSub(WAdd(RefNetwork(a, p), PowW(32 - p)), << 0, 1 >>)

\* the mask of prefix length p: 2^32 - 2^(32-p)
RefMask(p) == WSub(PowW(32), PowW(32 - p))

One == << 0, 1 >>

InvalidSplit == "the number of bits must be greater than or equal to the prefix length"

Subnets == prefixList.subnets

\* the accessors were read, or Split was called, on a network parsed from an
\* input written from an IPv4 address and mask
Inspected == pc = "inspected" /\ denoted.kind \in {"net", "mask"}

SplitDone == pc = "split" /\ denoted.kind \in {"net", "mask"}

\* ------------------------------------------------------------------------
\* Properties
\* ------------------------------------------------------------------------

\* C1: for every parsed parent (prefix length 0..32) and every target t with
\* parent prefix <= t <= 32, Split(t) succeeds and the children's ranges
\* [network, broadcast] tile the parent's range [network, broadcast] exactly:
\* the first child starts at the parent's network address, each child starts
\* right after the previous child's broadcast address, the last child ends at
\* the parent's broadcast address; and the number of children is
\* parent.NetworkSize() / child.NetworkSize().
C1_SplitTilesParent ==
    (SplitDone /\ PrefixLength(network) <= bits /\ bits <= MaxBits) =>
        /\ prefixList.err = "nil"
        /\ Len(Subnets) >= 1
        /\ Val(Network(Subnets[1])) = Val(Network(network))
        /\ \A k \in 1..Len(Subnets) :
              WLeq(Val(Network(Subnets[k])), Val(Broadcast(Subnets[k])))
        /\ \A k \in 1..(Len(Subnets) - 1) :
              WAdd(Val(Broadcast(Subnets[k])), One) = Val(Network(Subnets[k + 1]))
        /\ Val(Broadcast(Subnets[Len(Subnets)])) = Val(Broadcast(network))
        /\ Len(Subnets) = WDiv(NetworkSize(network), NetworkSize(Subnets[1]))

\* C2: after every successful Split(t), child i (0-indexed) has address
\* parent network address + i * 2^(32-t) and prefix length t, so the children
\* are in strictly ascending order and the first child's network address is
\* the parent's network address, also when the parent's address has host bits.
C2_ChildAddresses ==
    (SplitDone /\ prefixList.err = "nil") =>
        /\ \A k \in 1..Len(Subnets) :
              /\ BytesToU32(Subnets[k].IP) =
                    WAdd(RefNetwork(BytesToU32(network.IP), PrefixLength(network)),
                         WMul(k - 1, PowW(MaxBits - bits)))
              /\ PrefixLength(Subnets[k]) = bits
        /\ \A k \in 1..(Len(Subnets) - 1) :
              WLess(BytesToU32(Subnets[k].IP), BytesToU32(Subnets[k + 1].IP))
        /\ (Len(Subnets) >= 1 =>
              Val(Network(Subnets[1])) =
                  RefNetwork(BytesToU32(network.IP), PrefixLength(network)))

C2_Witness ==
    /\ SplitDone
    /\ prefixList.err = "nil"
    /\ Len(Subnets) = 4
    /\ network.IP # network.Net.IP
    /\ PrefixLength(network) = 22

\* C3: Split(t) fails with the prefix-length error and returns no children
\* whenever t is smaller than the parent's prefix length, and does not fail
\* with that error when t >= the parent's prefix length.
C3_SplitPrecondition ==
    SplitDone =>
        /\ (bits < PrefixLength(network) =>
              prefixList.err = InvalidSplit /\ prefixList.subnets = << >>)
        /\ (bits >= PrefixLength(network) => prefixList.err # InvalidSplit)

C3_Witness ==
    /\ SplitDone
    /\ bits = PrefixLength(network) - 1
    /\ prefixList.err = InvalidSplit

\* C4: for every address parsed with prefix length 31, FirstHost is the
\* network address (a & mask), LastHost is the broadcast address
\* (a | wildcard) and UsableHosts is 2.
C4_Slash31Hosts ==
    (Inspected /\ data.PrefixLength = 31) =>
        /\ Val(data.FirstHost) = RefNetwork(BytesToU32(denoted.addr), 31)
        /\ Val(data.LastHost) = RefBroadcast(BytesToU32(denoted.addr), 31)
        /\ data.UsableHosts = << 0, 2 >>

\* C5: for every address and every prefix length p in 0..30, FirstHost is the
\* network address + 1, LastHost is the broadcast address - 1 and UsableHosts
\* is 2^(32-p) - 2, none of them wrapped around 2^32.
C5_HostRange ==
    (Inspected /\ data.PrefixLength <= 30) =>
        LET a == BytesToU32(denoted.addr)
            p == data.PrefixLength
        IN  /\ Val(data.FirstHost) = WAdd(RefNetwork(a, p), One)
            /\ WAdd(Val(data.LastHost), One) = RefBroadcast(a, p)
            /\ WAdd(data.UsableHosts, << 0, 2 >>) = PowW(32 - p)

C5_Witness ==
    /\ Inspected
    /\ data.PrefixLength = 0
    /\ denoted.addr = << 255, 255, 255, 255 >>
    /\ data.UsableHosts = << Limb - 1, Limb - 2 >>

\* C6: for every address a parsed with prefix length 32, Network, Broadcast,
\* FirstHost and LastHost all are a, and UsableHosts is 0.
C6_Slash32 ==
    (Inspected /\ data.PrefixLength = 32) =>
        /\ ParseIP(data.Network) = denoted.addr
        /\ ParseIP(data.Broadcast) = denoted.addr
        /\ ParseIP(data.FirstHost) = denoted.addr
        /\ ParseIP(data.LastHost) = denoted.addr
        /\ data.UsableHosts = << 0, 0 >>

C6_Witness ==
    /\ Inspected
    /\ data.PrefixLength = 32
    /\ denoted.addr = << 10, 0, 0, 1 >>

\* C7: for every address and prefix length 0..32, with wildcard the bitwise
\* complement of the mask Netmask() returns: broadcast = network | wildcard
\* and network & wildcard = 0.
C7_BroadcastWildcard ==
    Inspected =>
        LET wildcard == Not32(Val(data.Netmask))
        IN  /\ Val(data.Wildcard) = wildcard
            /\ Val(data.Broadcast) = Or32(Val(data.Network), wildcard)
            /\ And32(Val(data.Network), wildcard) = << 0, 0 >>

C7_Witness ==
    /\ Inspected
    /\ data.PrefixLength = 23
    /\ data.Network # data.Address
    /\ data.Broadcast # data.Address

\* C8: NetworkSize is 2^(32-p) for every prefix length p in 1..32 and the
\* clamped value 4294967295 for p = 0.
C8_NetworkSize ==
    Inspected =>
        data.NetworkSize =
            IF data.PrefixLength = 0 THEN WSub(PowW(32), One)
            ELSE PowW(32 - data.PrefixLength)

C8_Witness ==
    /\ Inspected
    /\ data.PrefixLength = 0
    /\ data.NetworkSize = << Limb - 1, Limb - 1 >>

\* C9: the parse result depends on the denoted address and mask only: "a/p",
\* "a M" and the same with a and/or M as 8 hexadecimal digits, with or
\* without 0x, all parse to the network of address a and prefix length p.
C9_NotationIndependent ==
    (pc # "start" /\ denoted.kind = "net" /\ denoted.form[2] # "none") =>
        LET a == BytesToU32(denoted.addr)
            p == denoted.plen
        IN  /\ network.err = "nil"
            /\ network.IP = denoted.addr
            /\ BytesToU32(network.Mask) = RefMask(p)
            /\ BytesToU32(network.Net.IP) = RefNetwork(a, p)
            /\ network.Net.Mask = network.Mask
            /\ PrefixLength(network) = p
            /\ network = ParseIPv4(FormatDotted(denoted.addr) \o << "/" >> \o Itoa(p))

C9_Witness ==
    /\ pc = "parsed"
    /\ denoted.form = << "0xhex", "hex" >>
    /\ denoted.plen = 23
    /\ network.err = "nil"
    /\ network.IP = << 192, 168, 0, 254 >>

\* C10: an input of exactly one token, a dotted-decimal or 8-hex-digit
\* address, parses with prefix length 24 and netmask 255.255.255.0.
C10_DefaultPrefix ==
    (pc # "start" /\ denoted.kind = "net" /\ denoted.form[2] = "none") =>
        /\ network.err = "nil"
        /\ network.IP = denoted.addr
        /\ PrefixLength(network) = 24
        /\ Netmask(network) = FormatDotted(<< 255, 255, 255, 0 >>)

C10_Witness ==
    /\ pc = "parsed"
    /\ denoted.form = << "hex", "none" >>
    /\ denoted.addr = << 192, 168, 0, 254 >>
    /\ PrefixLength(network) = 24

\* Reference reading of the tokens

\* t without one leading "0x" or "0X"
RefBody(t) ==
    IF Len(t) >= 2 /\ t[1] = "0" /\ t[2] \in {"x", "X"} THEN SubSeq(t, 3, Len(t)) ELSE t

\* 8 hexadecimal digits, optionally after one leading 0x or 0X
RefHex8(t) == Len(RefBody(t)) = 8 /\ \A i \in 1..8 : IsHexDigit(RefBody(t)[i])

\* the 4 bytes 8 hexadecimal digits stand for
RefHexBytes(h) == [ i \in 1..4 |-> 16 * HexVal(h[2 * i - 1]) + HexVal(h[2 * i]) ]

\* 1 to 3 decimal digits of a value in 0..255
RefOctet(f) ==
    /\ Len(f) \in 1..3
    /\ \A i \in 1..Len(f) : IsDecDigit(f[i])
    /\ Atoi(f) <= 255

\* exactly four dot-separated octets in 0..255
RefDotted(t) ==
    LET f == SplitOn(t, ".")
    IN  Len(f) = 4 /\ \A i \in 1..4 : RefOctet(f[i])

\* the number of leading one-bits of a contiguous left-aligned mask
\* 2^32 - 2^(32-p), -1 for any other value
RefOnes(m) ==
    IF \E p \in 0..32 : BytesToU32(m) = RefMask(p)
    THEN CHOOSE p \in 0..32 : BytesToU32(m) = RefMask(p)
    ELSE -1

\* the powers of two up to 2^30
PowersOfTwo == { Pow2(k) : k \in 0..30 }

\* the address token of an input: its first token
AddrToken(s) ==
    LET parts == FieldsFunc(s, {"/", " "})
    IN  IF parts = << >> THEN << >> ELSE parts[1]

\* C11: when the second token is a dotted-decimal or 8-hex-digit value that
\* is not a contiguous left-aligned 32-bit mask, ParseIPv4 fails with
\* ErrInvalidNetmask and returns no network; when it is a contiguous mask the
\* network's prefix length is the number of leading one-bits (0 for 0.0.0.0,
\* 32 for 255.255.255.255).
C11_InvalidNetmask ==
    (pc # "start" /\ denoted.kind = "mask") =>
        IF RefOnes(denoted.mask) = -1
        THEN network = [err |-> "ErrInvalidNetmask"]
        ELSE /\ network.err = "nil"
             /\ PrefixLength(network) = RefOnes(denoted.mask)
             /\ (denoted.mask = << 0, 0, 0, 0 >> => PrefixLength(network) = 0)
             /\ (denoted.mask = << 255, 255, 255, 255 >> => PrefixLength(network) = 32)

C11_Witness ==
    /\ pc = "parsed"
    /\ denoted.kind = "mask"
    /\ denoted.mask = << 255, 0, 255, 0 >>
    /\ denoted.form = << "dec", "hex" >>
    /\ network = [err |-> "ErrInvalidNetmask"]

\* C12: ParseIPv4 returns an error for every input whose address token is
\* neither a valid dotted-decimal IPv4 address nor a valid 8-hex-digit
\* address (IPv6 literals such as "::1/64" included), so every network it
\* returns is an IPv4 network with a prefix length in 0..32.
C12_OnlyIPv4 ==
    (network.err # "none") =>
        /\ (~ RefDotted(AddrToken(input)) /\ ~ RefHex8(AddrToken(input)))
              => network.err # "nil"
        /\ network.err = "nil" =>
              /\ Len(network.IP) = 4
              /\ Len(network.Mask) = 4
              /\ PrefixLength(network) \in 0..MaxBits

\* C13: for every address a and prefix length p the network parsed from a/p
\* keeps a verbatim: Address() is a with its host bits, String() is "a/p",
\* and Network() is a & mask.
C13_AddressVerbatim ==
    Inspected =>
        /\ data.Address = FormatDotted(denoted.addr)
        /\ data.String = FormatDotted(denoted.addr) \o << "/" >> \o Itoa(denoted.plen)
        /\ Val(data.Network) = RefNetwork(BytesToU32(denoted.addr), denoted.plen)

C13_Witness ==
    /\ Inspected
    /\ denoted.form = << "dec", "prefix" >>
    /\ denoted.addr = << 10, 0, 0, 1 >>
    /\ denoted.plen = 8
    /\ data.String = << "1", "0", ".", "0", ".", "0", ".", "1", "/", "8" >>
    /\ data.Network = << "1", "0", ".", "0", ".", "0", ".", "0" >>

\* C14: for every network n returned by ParseIPv4, ParseIPv4(n.String())
\* succeeds and returns a network equal to n: same address, prefix length and
\* every derived field.
C14_ReparseString ==
    pc = "reparsed" =>
        /\ reparsed.err = "nil"
        /\ reparsed = network

\* C15: for every valid dotted-decimal address a, IntToIPv4(IPv4ToInt(a)) = a,
\* and for every 32-bit unsigned n, IPv4ToInt(IntToIPv4(n)) = n.
C15_IntRoundTrip ==
    /\ (pc = "converted" /\ denoted.kind = "addr") => codec.back = input
    /\ pc = "formatted" => codec.back = number

C15_Witness ==
    /\ pc = "converted"
    /\ denoted.addr = << 10, 0, 100, 255 >>
    /\ codec.toInt = << 10 * 256, 100 * 256 + 255 >>
    /\ codec.back = << "1", "0", ".", "0", ".", "1", "0", "0", ".", "2", "5", "5" >>

\* C16: IsIPv4Hex(token) is true exactly when the token is 8 hexadecimal
\* digits optionally preceded by one leading 0x or 0X, and false for every
\* other token, tokens with 0x elsewhere than at the start included.
C16_IsHexExact ==
    pc = "converted" => (codec.isHex <=> RefHex8(input))

\* C17: ParseIPv4FromHex succeeds exactly when the input, after one optional
\* leading 0x or 0X, is exactly 8 hexadecimal digits, and then returns the
\* dotted-decimal address of those 4 bytes; in every other case (wrong
\* length, a character that is no hexadecimal digit, such as a sign) it fails
\* with ErrInvalidHexAddress.
C17_FromHexExact ==
    pc = "converted" =>
        IF RefHex8(input)
        THEN codec.fromHex = [err |-> "nil",
                              text |-> FormatDotted(RefHexBytes(RefBody(input)))]
        ELSE codec.fromHex.err = "ErrInvalidHexAddress"

\* C18: IPv4ToInt reports a failure for every input that is not exactly four
\* dot-separated octets in 0..255: such an input never gets the result of a
\* valid address such as 0.0.0.0.
C18_ToIntFailure ==
    (pc = "converted" /\ ~ RefDotted(input)) =>
        \A a \in Addrs : codec.toInt # BytesToU32(a)

\* C19: ClosestLargerPowerOfTwo(n) is 1 for every n < 1 and, for every n >= 1
\* up to the bound, the smallest power of two that is >= n, so that
\* n <= result < 2n.
C19_SmallestPower ==
    pc = "counted" =>
        IF networks < 1 THEN subnets = 1
        ELSE /\ subnets \in PowersOfTwo
             /\ networks <= subnets
             /\ subnets < 2 * networks
             /\ \A q \in PowersOfTwo : q >= networks => subnets <= q

C19_Witness ==
    /\ pc = "counted"
    /\ networks = 129
    /\ subnets = 256

\* C20: ClosestLargerPowerOfTwo is monotonic non-decreasing (m <= n implies
\* f(m) <= f(n)) and idempotent (f(f(n)) = f(n), so f(2^k) = 2^k) up to the
\* bound.
C20_MonotonicIdempotent ==
    pc = "counted" =>
        /\ \A m \in (0 - MaxNetworks)..networks :
              ClosestLargerPowerOfTwo(m) <= subnets
        /\ ClosestLargerPowerOfTwo(subnets) = subnets
        /\ networks \in PowersOfTwo => subnets = networks

C20_Witness ==
    /\ pc = "counted"
    /\ networks = 64
    /\ subnets = 64
    /\ ClosestLargerPowerOfTwo(63) = 64
    /\ ClosestLargerPowerOfTwo(65) = 128

\* the network parsed from the network address and prefix length of the
\* inspected one: the same subnet, given by its first address
SameSubnet == ParseIPv4(data.Network \o << "/" >> \o Itoa(data.PrefixLength))

\* C23: two addresses of the same subnet (same prefix length 0..32, same
\* network address) have equal Broadcast, FirstHost, LastHost, UsableHosts
\* and NetworkSize: the values of any address of a subnet are those of the
\* subnet's network address.
C23_SubnetOnly ==
    Inspected =>
        /\ PrefixLength(SameSubnet) = data.PrefixLength
        /\ Network(SameSubnet) = data.Network
        /\ Broadcast(SameSubnet) = data.Broadcast
        /\ FirstHost(SameSubnet) = data.FirstHost
        /\ LastHost(SameSubnet) = data.LastHost
        /\ UsableHosts(SameSubnet) = data.UsableHosts
        /\ NetworkSize(SameSubnet) = data.NetworkSize

\* C26: for every integer target outside [parent prefix length, 32], targets
\* greater than 32 in particular, Split returns an error value and does not
\* crash.
C26_SplitErrorValue ==
    (SplitDone /\ (bits < PrefixLength(network) \/ bits > MaxBits)) =>
        /\ prefixList.err # "nil"
        /\ prefixList.err # "panic: integer divide by zero"
        /\ prefixList.subnets = << >>

\* C28: after every successful Split, of any parent (a /0 included) and any
\* target, every child's stored address is its own network address, the
\* children's ranges [network, broadcast] are pairwise disjoint and each lies
\* within the parent's range [network, broadcast].
C28_ChildrenDisjointInside ==
    (SplitDone /\ prefixList.err = "nil") =>
        /\ \A k \in 1..Len(Subnets) :
              /\ Subnets[k].IP = Subnets[k].Net.IP
              /\ Address(Subnets[k]) = Network(Subnets[k])
              /\ WLeq(Val(Network(network)), Val(Network(Subnets[k])))
              /\ WLeq(Val(Network(Subnets[k])), Val(Broadcast(Subnets[k])))
              /\ WLeq(Val(Broadcast(Subnets[k])), Val(Broadcast(network)))
        /\ \A j \in 1..Len(Subnets), k \in 1..Len(Subnets) :
              j # k => \/ WLess(Val(Broadcast(Subnets[j])), Val(Network(Subnets[k])))
                       \/ WLess(Val(Broadcast(Subnets[k])), Val(Network(Subnets[j])))

C28_Witness ==
    /\ SplitDone
    /\ prefixList.err = "nil"
    /\ PrefixLength(network) = 0
    /\ bits = 2
    /\ Len(Subnets) = 3
    /\ network.IP = << 10, 0, 0, 1 >>

\* Split was called with the number of bits made from a number of networks,
\* on a network parsed from an input written from an IPv4 address and mask
SplitNetworksDone == pc = "splitnetworks" /\ denoted.kind \in {"net", "mask"}

\* C27: for every parent (prefix length 0..32) and every number N >= 1 of
\* networks with ClosestLargerPowerOfTwo(N) at most the parent's number of
\* addresses 2^(32-p), the split by count (subnets =
\* ClosestLargerPowerOfTwo(N), childSize = NetworkSize / subnets, target =
\* 32 - log2(childSize), Split(target)) yields exactly
\* ClosestLargerPowerOfTwo(N) children, hence at least N.
C27_SplitByCount ==
    (SplitNetworksDone
        /\ WLeq(<< 0, ClosestLargerPowerOfTwo(networks) >>,
                PowW(MaxBits - PrefixLength(network)))) =>
        /\ subnets = ClosestLargerPowerOfTwo(networks)
        /\ prefixList.err = "nil"
        /\ Len(Subnets) = subnets
        /\ Len(Subnets) >= networks

\* ------------------------------------------------------------------------
\* utils.GetTimestamp and the arguments of tcp ping
\* ------------------------------------------------------------------------

\* C25: for every current time GetTimestamp returns, without failing, a
\* timestamp of exactly 27 characters.
C25_TimestampWidth ==
    pc = "stamped" => currentTime.err = "nil" /\ Len(currentTime.text) = 27

\* the port texts the user wrote: the second argument, and what follows the
\* first ":" of the first argument
SpecifiedPorts(a) ==
    (IF Len(a) >= 2 THEN { a[2] } ELSE {})
    \cup (IF Len(a) >= 1 /\ Contains(a[1], ":")
          THEN { SubSeq(a[1], IndexOf(a[1], ":") + 1, Len(a[1])) }
          ELSE {})

\* the port number a port text denotes: decimal digits, 0 when it is none
RefPort(t) ==
    IF t # << >> /\ Len(t) <= 6 /\ \A i \in 1..Len(t) : IsDecDigit(t[i]) THEN Atoi(t)
    ELSE IF Len(t) >= 2 /\ Len(t) <= 6 /\ t[1] = "+" /\ \A i \in 2..Len(t) : IsDecDigit(t[i])
    THEN Atoi(Tail(t))
    ELSE 0

\* C24: when tcp ping goes on to ping, the port is a port the user specified,
\* within 1..65535, and it is the default 443 when none was specified.
C24_PortSpecified ==
    (pc = "ran" /\ target.err = "nil") =>
        IF SpecifiedPorts(args) = {} THEN target.port = 443
        ELSE /\ target.port \in 1..65535
             /\ \E t \in SpecifiedPorts(args) : RefPort(t) = target.port

\* ------------------------------------------------------------------------
\* The ping loop
\* ------------------------------------------------------------------------

RECURSIVE SumOf(_)
SumOf(s) == IF s = << >> THEN 0 ELSE s[1] + SumOf(Tail(s))

SeqMin(s) == CHOOSE x \in { s[i] : i \in 1..Len(s) } : \A i \in 1..Len(s) : x <= s[i]

SeqMax(s) == CHOOSE x \in { s[i] : i \in 1..Len(s) } : \A i \in 1..Len(s) : x >= s[i]

\* the statistics agree with the round-trip times of the successful pings
StatsInv ==
    /\ packetsReceived <= packetsSent
    /\ packetsReceived = Len(rtts)
    /\ totResponseTime = SumOf(rtts)
    /\ packetsReceived >= 1 =>
          /\ minResponseTime <= avgResponseTime
          /\ avgResponseTime <= maxResponseTime
          /\ avgResponseTime = totResponseTime \div packetsReceived
          /\ minResponseTime = SeqMin(rtts)
          /\ maxResponseTime = SeqMax(rtts)

\* a step of the loop that sends a packet, and one that ends a failed ping
SendStep == loopPc = "head" /\ loopPc' = "pinging"

FailStep == loopPc = "pinging" /\ loopPc' = "head"

\* C29: packetsReceived <= packetsSent, totResponseTime is the sum of the
\* successful round-trip times, min <= avg <= max and avg = tot / received
\* once a packet was received; an iteration with a failed ping changes
\* packetsSent only, by one.
C29_Statistics ==
    /\ []StatsInv
    /\ [][ /\ SendStep => packetsSent' = packetsSent + 1 /\ UNCHANGED statVars
           /\ FailStep => UNCHANGED << packetsSent, statVars >> ]_vars

\* two successes of different round-trip times and one failure
C29_Witness ==
    /\ packetsReceived >= 2
    /\ packetsSent > packetsReceived
    /\ minResponseTime < avgResponseTime
    /\ avgResponseTime < maxResponseTime
    /\ loopPc = "check"

\* C21: with --count N > 0 packetsSent never exceeds N, and once the N-th
\* packet is sent the statistics are eventually printed and the process
\* exits, whatever the outcomes of the pings.
C21_ExactlyCount ==
    /\ [](count > 0 => packetsSent <= count)
    /\ (count > 0 /\ packetsSent >= count) ~> (exited = "exit 0" /\ report # None)

\* C22: the delivery of os.Interrupt is eventually followed by the report
\* and the exit of the process.
C22_CtrlCReports == delivered ~> (exited = "exit 0" /\ report # None)

\* the goroutine has received os.Interrupt and the process has not exited
InterruptReceived == handlerPc \in {"got", "loss"} /\ sig = "interrupt" /\ exited = "no"

\* C30: once the goroutine has received the interrupt the loop updates
\* neither packetsSent nor packetsReceived, and the report is computed with
\* packetsSent >= 1 while no ping is in progress.
C30_NoConcurrentAccess ==
    [][ /\ InterruptReceived => UNCHANGED << packetsSent, packetsReceived >>
        /\ (handlerPc = "loss" /\ handlerPc' = "done") =>
               packetsSent >= 1 /\ loopPc # "pinging" ]_vars
====
